---- MODULE Spec2Model ----
(***************************************************************************)
(* Model of the local path algebra of filesystems-provider-node:           *)
(* LocalFileSystem.getPath, LocalPath (parse, normalize, resolve,          *)
(* relativize, compareTo, equals, ...) and the Node.js `path` functions    *)
(* the code delegates to, on both platforms (os.platform()).               *)
(*                                                                         *)
(* A JavaScript string is a sequence of one-character strings.  The        *)
(* character U+00DF is written "sz".                                       *)
(***************************************************************************)
EXTENDS Integers, Sequences, FiniteSets, TLC

VARIABLES platform, cwd, a, b, res, files

vars == <<platform, cwd, a, b, res, files>>

(***************************************************************************)
(* Strings                                                                 *)
(***************************************************************************)
Min(x, y) == IF x < y THEN x ELSE y

\* String.prototype.charCodeAt(0) for the characters of the model
CharCode(ch) ==
    CASE ch = "\t" -> 9
      [] ch = "\"" -> 34
      [] ch = "#" -> 35
      [] ch = "%" -> 37
      [] ch = "*" -> 42
      [] ch = "." -> 46
      [] ch = "/" -> 47
      [] ch = ":" -> 58
      [] ch = "<" -> 60
      [] ch = ">" -> 62
      [] ch = "?" -> 63
      [] ch = "A" -> 65
      [] ch = "B" -> 66
      [] ch = "C" -> 67
      [] ch = "D" -> 68
      [] ch = "S" -> 83
      [] ch = "\\" -> 92
      [] ch = "a" -> 97
      [] ch = "b" -> 98
      [] ch = "c" -> 99
      [] ch = "d" -> 100
      [] ch = "f" -> 102
      [] ch = "q" -> 113
      [] ch = "s" -> 115
      [] ch = "|" -> 124
      [] ch = "sz" -> 223
      [] OTHER -> 0

\* String.prototype.toUpperCase() of a one-character string (a string:
\* U+00DF has the two-character upper case "SS")
charToUpperCase(ch) ==
    CASE ch = "a" -> <<"A">>
      [] ch = "b" -> <<"B">>
      [] ch = "c" -> <<"C">>
      [] ch = "d" -> <<"D">>
      [] ch = "s" -> <<"S">>
      [] ch = "sz" -> <<"S", "S">>
      [] OTHER -> <<ch>>

\* String.prototype.toLowerCase() of a one-character string
charToLowerCase(ch) ==
    CASE ch = "A" -> "a"
      [] ch = "B" -> "b"
      [] ch = "C" -> "c"
      [] ch = "D" -> "d"
      [] ch = "S" -> "s"
      [] OTHER -> ch

RECURSIVE toUpperCase(_)
toUpperCase(s) ==
    IF s = <<>> THEN <<>> ELSE charToUpperCase(Head(s)) \o toUpperCase(Tail(s))

toLowerCase(s) == [i \in 1..Len(s) |-> charToLowerCase(s[i])]

\* s.slice(from, to) with 0-based offsets, from inclusive, to exclusive
Slice(s, from, to) ==
    IF to <= from THEN <<>> ELSE SubSeq(s, from + 1, Min(to, Len(s)))

SliceFrom(s, from) == Slice(s, from, Len(s))

\* s.charAt(i), 0-based; "" (here <<>>) out of range
charAt(s, i) == IF i >= 0 /\ i < Len(s) THEN s[i + 1] ELSE ""

strStartsWith(s, t) == Len(t) <= Len(s) /\ SubSeq(s, 1, Len(t)) = t

strEndsWith(s, t) ==
    Len(t) <= Len(s) /\ SubSeq(s, Len(s) - Len(t) + 1, Len(s)) = t

\* s.lastIndexOf(ch), 0-based, -1 when absent
lastIndexOf(s, ch) ==
    LET hits == {i \in 1..Len(s) : s[i] = ch}
    IN IF hits = {} THEN -1 ELSE (CHOOSE i \in hits : \A j \in hits : j <= i) - 1

\* s.replaceAll(from, to) for a one-character `from`
replaceAllChar(s, from, to) ==
    [i \in 1..Len(s) |-> IF s[i] = from THEN to ELSE s[i]]

\* s.replaceAll(x + x, x) and s.replaceAll(p + x + x, p + x): non-overlapping
\* occurrences, left to right
RECURSIVE replaceAllPair(_, _)
replaceAllPair(s, x) ==
    IF Len(s) < 2 THEN s
    ELSE IF s[1] = x /\ s[2] = x THEN <<x>> \o replaceAllPair(SubSeq(s, 3, Len(s)), x)
    ELSE <<s[1]>> \o replaceAllPair(Tail(s), x)

RECURSIVE replaceAllColonPair(_, _)
replaceAllColonPair(s, x) ==
    IF Len(s) < 3 THEN s
    ELSE IF s[1] = ":" /\ s[2] = x /\ s[3] = x
         THEN <<":", x>> \o replaceAllColonPair(SubSeq(s, 4, Len(s)), x)
    ELSE <<s[1]>> \o replaceAllColonPair(Tail(s), x)

\* number of leading characters of s that are "/"
RECURSIVE slashRun(_)
slashRun(s) == IF s # <<>> /\ Head(s) = "/" THEN 1 + slashRun(Tail(s)) ELSE 0

\* s.replace(/([^:]\/)\/+/g, "$1")
RECURSIVE collapseSlashes(_)
collapseSlashes(s) ==
    IF s = <<>> THEN <<>>
    ELSE IF Len(s) >= 3 /\ s[1] # ":" /\ s[2] = "/" /\ s[3] = "/"
         THEN <<s[1], "/">>
              \o collapseSlashes(SubSeq(s, 3 + slashRun(SubSeq(s, 3, Len(s))), Len(s)))
    ELSE <<s[1]>> \o collapseSlashes(Tail(s))

(***************************************************************************)
(* Node.js path: helpers common to path.posix and path.win32               *)
(***************************************************************************)
sep(pf) == IF pf = "win32" THEN "\\" ELSE "/"

isPathSeparator(pf, ch) == IF pf = "win32" THEN ch \in {"/", "\\"} ELSE ch = "/"

isWindowsDeviceRoot(ch) ==
    (CharCode(ch) >= 65 /\ CharCode(ch) <= 90) \/ (CharCode(ch) >= 97 /\ CharCode(ch) <= 122)

\* the segments of s between path separators (empty segments included)
RECURSIVE splitSegs(_, _, _)
splitSegs(pf, s, cur) ==
    IF s = <<>> THEN <<cur>>
    ELSE IF isPathSeparator(pf, Head(s)) THEN <<cur>> \o splitSegs(pf, Tail(s), <<>>)
    ELSE splitSegs(pf, Tail(s), Append(cur, Head(s)))

RECURSIVE joinSegs(_, _)
joinSegs(segs, sp) ==
    IF segs = <<>> THEN <<>>
    ELSE IF Len(segs) = 1 THEN segs[1]
    ELSE segs[1] \o <<sp>> \o joinSegs(Tail(segs), sp)

DotDot == <<".", ".">>

\* normalizeString, on the list of segments: "" and "." are skipped, ".."
\* removes the last kept segment unless that is ".." (or there is none), in
\* which case it is kept only if allowAboveRoot
RECURSIVE normSegs(_, _, _)
normSegs(segs, allowAboveRoot, acc) ==
    IF segs = <<>> THEN acc
    ELSE LET sg == Head(segs)
             rest == Tail(segs)
         IN IF sg = <<>> \/ sg = <<".">> THEN normSegs(rest, allowAboveRoot, acc)
            ELSE IF sg = DotDot
                 THEN IF acc # <<>> /\ acc[Len(acc)] # DotDot
                      THEN normSegs(rest, allowAboveRoot, SubSeq(acc, 1, Len(acc) - 1))
                      ELSE IF allowAboveRoot
                           THEN normSegs(rest, allowAboveRoot, Append(acc, sg))
                           ELSE normSegs(rest, allowAboveRoot, acc)
            ELSE normSegs(rest, allowAboveRoot, Append(acc, sg))

normalizeString(pf, path, allowAboveRoot) ==
    joinSegs(normSegs(splitSegs(pf, path, <<>>), allowAboveRoot, <<>>), sep(pf))


\* least 0-based index i >= from with isPathSeparator(s[i]) = wantSep, or s.length
RECURSIVE firstIdx(_, _, _, _)
firstIdx(pf, s, from, wantSep) ==
    IF from >= Len(s) THEN Len(s)
    ELSE IF isPathSeparator(pf, s[from + 1]) = wantSep THEN from
    ELSE firstIdx(pf, s, from + 1, wantSep)

\* greatest 0-based index i in [lo, hi) with isPathSeparator(s[i]) = wantSep, or -1
RECURSIVE lastIdx(_, _, _, _, _)
lastIdx(pf, s, lo, hi, wantSep) ==
    IF hi <= lo THEN -1
    ELSE IF isPathSeparator(pf, s[hi]) = wantSep THEN hi - 1
    ELSE lastIdx(pf, s, lo, hi - 1, wantSep)

\* The UNC prefix match shared by win32.parse, win32.normalize and
\* win32.resolve: \\ + one or more non-separators + one or more separators
\* + one or more non-separators.  j1, j2, j3 are the offsets where the three
\* scans stop.
uncOffsets(path, j1, j2, j3) ==
    [ok |-> j1 < Len(path) /\ j1 # 2 /\ j2 < Len(path) /\ j2 # j1,
     j1 |-> j1, j2 |-> j2, j3 |-> j3]

uncScan2(path, j1, j2) == uncOffsets(path, j1, j2, firstIdx("win32", path, j2, TRUE))

uncScan1(path, j1) == uncScan2(path, j1, firstIdx("win32", path, j1, FALSE))

uncMatch(path) == uncScan1(path, firstIdx("win32", path, 2, TRUE))

uncDevice(path, m) ==
    <<"\\", "\\">> \o Slice(path, 2, m.j1) \o <<"\\">> \o Slice(path, m.j2, m.j3)

EmptyParsed == [root |-> <<>>, dir |-> <<>>, base |-> <<>>]

\* the tail of parse, both platforms: base is the last run of non-separators
\* at or after rootEnd, startPart the offset after the separator before it
parseTailFrom(pf, path, rootEnd, end) ==
    [end |-> end, slash |-> IF end = -1 THEN -1 ELSE lastIdx(pf, path, rootEnd, end, TRUE)]

endAfter(e) == IF e = -1 THEN -1 ELSE e + 1

parseTail(pf, path, rootEnd) ==
    parseTailFrom(pf, path, rootEnd, endAfter(lastIdx(pf, path, rootEnd, Len(path), FALSE)))

\* path.posix.parse (root, dir, base)
posixParsed(path, isAbsolute, t) ==
    LET startPart == IF t.slash = -1 THEN 0 ELSE t.slash + 1
        bstart == IF startPart = 0 /\ isAbsolute THEN 1 ELSE startPart
    IN [root |-> IF isAbsolute THEN <<"/">> ELSE <<>>,
        dir |-> IF startPart > 0 THEN Slice(path, 0, startPart - 1)
                ELSE IF isAbsolute THEN <<"/">> ELSE <<>>,
        base |-> IF t.end = -1 THEN <<>> ELSE Slice(path, bstart, t.end)]

posixParse(path) ==
    IF path = <<>> THEN EmptyParsed
    ELSE posixParsed(path, path[1] = "/",
                     parseTail("posix", path, IF path[1] = "/" THEN 1 ELSE 0))

\* rootEnd of path.win32.parse
uncRootEnd(path, m) ==
    IF m.ok THEN (IF m.j3 = Len(path) THEN m.j3 ELSE m.j3 + 1) ELSE 1

win32ParseRootEnd(path) ==
    IF isPathSeparator("win32", path[1])
    THEN IF isPathSeparator("win32", path[2]) THEN uncRootEnd(path, uncMatch(path))
         ELSE 1
    ELSE IF isWindowsDeviceRoot(path[1]) /\ path[2] = ":"
         THEN IF isPathSeparator("win32", charAt(path, 2)) THEN 3 ELSE 2
    ELSE 0

win32Parsed(path, rootEnd, t) ==
    LET root == Slice(path, 0, rootEnd)
        startPart == IF t.slash = -1 THEN rootEnd ELSE t.slash + 1
    IN [root |-> root,
        dir |-> IF startPart > 0 /\ startPart # rootEnd
                THEN Slice(path, 0, startPart - 1) ELSE root,
        base |-> IF t.end = -1 THEN <<>> ELSE Slice(path, startPart, t.end)]

win32ParsedFrom(path, rootEnd) == win32Parsed(path, rootEnd, parseTail("win32", path, rootEnd))

\* path.win32.parse (root, dir, base)
win32Parse(path) ==
    IF path = <<>> THEN EmptyParsed
    ELSE IF Len(path) = 1
         THEN IF isPathSeparator("win32", path[1])
              THEN [root |-> path, dir |-> path, base |-> <<>>]
              ELSE [root |-> <<>>, dir |-> <<>>, base |-> path]
    ELSE IF isWindowsDeviceRoot(path[1]) /\ path[2] = ":"
            /\ (Len(path) <= 2 \/ (Len(path) = 3 /\ isPathSeparator("win32", path[3])))
         THEN [root |-> path, dir |-> path, base |-> <<>>]
    ELSE win32ParsedFrom(path, win32ParseRootEnd(path))

\* pathFs.parse
pathParse(pf, path) == IF pf = "win32" THEN win32Parse(path) ELSE posixParse(path)

posixNormalized(isAbsolute, trailingSeparator, n) ==
    IF n = <<>>
    THEN (IF isAbsolute THEN <<"/">>
          ELSE IF trailingSeparator THEN <<".", "/">> ELSE <<".">>)
    ELSE (IF isAbsolute THEN <<"/">> ELSE <<>>) \o n
         \o (IF trailingSeparator THEN <<"/">> ELSE <<>>)

\* path.posix.normalize
posixNormalize(path) ==
    IF path = <<>> THEN <<".">>
    ELSE posixNormalized(path[1] = "/", path[Len(path)] = "/",
                         normalizeString("posix", path, path[1] # "/"))

uncRoot(path, m) ==
    IF m.ok
    THEN [rootEnd |-> m.j3, device |-> uncDevice(path, m),
          isAbsolute |-> TRUE, uncOnly |-> m.j3 = Len(path)]
    ELSE [rootEnd |-> 0, device |-> <<>>, isAbsolute |-> TRUE, uncOnly |-> FALSE]

\* the root analysis of path.win32.normalize and path.win32.resolve
win32Root(path) ==
    IF Len(path) = 1
    THEN IF isPathSeparator("win32", path[1])
         THEN [rootEnd |-> 1, device |-> <<>>, isAbsolute |-> TRUE, uncOnly |-> FALSE]
         ELSE [rootEnd |-> 0, device |-> <<>>, isAbsolute |-> FALSE, uncOnly |-> FALSE]
    ELSE IF isPathSeparator("win32", path[1])
         THEN IF isPathSeparator("win32", path[2])
              THEN uncRoot(path, uncMatch(path))
              ELSE [rootEnd |-> 1, device |-> <<>>, isAbsolute |-> TRUE, uncOnly |-> FALSE]
    ELSE IF isWindowsDeviceRoot(path[1]) /\ path[2] = ":"
         THEN IF Len(path) > 2 /\ isPathSeparator("win32", path[3])
              THEN [rootEnd |-> 3, device |-> Slice(path, 0, 2), isAbsolute |-> TRUE,
                    uncOnly |-> FALSE]
              ELSE [rootEnd |-> 2, device |-> Slice(path, 0, 2), isAbsolute |-> FALSE,
                    uncOnly |-> FALSE]
    ELSE [rootEnd |-> 0, device |-> <<>>, isAbsolute |-> FALSE, uncOnly |-> FALSE]

win32NormalizeTail(path, r, t0) ==
    LET t1 == IF t0 = <<>> /\ ~r.isAbsolute THEN <<".">> ELSE t0
        tail == IF t1 # <<>> /\ isPathSeparator("win32", path[Len(path)])
                THEN t1 \o <<"\\">> ELSE t1
    IN IF r.uncOnly THEN r.device \o <<"\\">>
       ELSE r.device \o (IF r.isAbsolute THEN <<"\\">> ELSE <<>>) \o tail

win32NormalizeRooted(path, r) ==
    win32NormalizeTail(path, r,
                       IF r.rootEnd < Len(path)
                       THEN normalizeString("win32", SliceFrom(path, r.rootEnd), ~r.isAbsolute)
                       ELSE <<>>)

\* path.win32.normalize
win32Normalize(path) ==
    IF path = <<>> THEN <<".">>
    ELSE IF Len(path) = 1 THEN (IF path[1] = "/" THEN <<"\\">> ELSE path)
    ELSE win32NormalizeRooted(path, win32Root(path))

\* pathFs.normalize
pathNormalize(pf, path) ==
    IF pf = "win32" THEN win32Normalize(path) ELSE posixNormalize(path)

\* path.posix.resolve(...args): right to left until an absolute argument,
\* then the working directory
RECURSIVE posixResolveLoop(_, _, _)
posixResolveLoop(args, i, wd) ==
    IF i = -1 THEN wd \o <<"/">>
    ELSE LET path == args[i + 1]
         IN IF path = <<>> THEN posixResolveLoop(args, i - 1, wd)
            ELSE IF path[1] = "/" THEN path \o <<"/">>
            ELSE posixResolveLoop(args, i - 1, wd) \o path \o <<"/">>

posixResolve(args, wd) ==
    <<"/">> \o normalizeString("posix", posixResolveLoop(args, Len(args) - 1, wd), FALSE)

\* path.win32.resolve(...args); no per-drive working directory is set in
\* the environment (process.env["=X:"] is undefined)
RECURSIVE win32ResolveLoop(_, _, _, _)
\* one argument is taken: st is the device, the tail and the absoluteness
\* resolved so far
win32ResolveTake(args, i, wd, st, path, r, dev) ==
    IF st.abs
    THEN IF dev # <<>> THEN [st EXCEPT !.device = dev]
         ELSE win32ResolveLoop(args, i - 1, wd, [st EXCEPT !.device = dev])
    ELSE IF r.isAbsolute /\ dev # <<>>
         THEN [device |-> dev,
               tail |-> SliceFrom(path, r.rootEnd) \o <<"\\">> \o st.tail,
               abs |-> r.isAbsolute]
         ELSE win32ResolveLoop(args, i - 1, wd,
                               [device |-> dev,
                                tail |-> SliceFrom(path, r.rootEnd) \o <<"\\">> \o st.tail,
                                abs |-> r.isAbsolute])

\* an argument on another drive than the one resolved so far is skipped
win32ResolveRooted(args, i, wd, st, path, r) ==
    IF r.device # <<>> /\ st.device # <<>>
       /\ toLowerCase(r.device) # toLowerCase(st.device)
    THEN win32ResolveLoop(args, i - 1, wd, st)
    ELSE win32ResolveTake(args, i, wd, st, path, r,
                          IF r.device # <<>> /\ st.device = <<>> THEN r.device
                          ELSE st.device)

win32ResolvePath(args, i, wd, st, path) ==
    win32ResolveRooted(args, i, wd, st, path, win32Root(path))

win32ResolveLoop(args, i, wd, st) ==
    IF i < -1 THEN st
    ELSE IF i >= 0 /\ args[i + 1] = <<>> THEN win32ResolveLoop(args, i - 1, wd, st)
    ELSE win32ResolvePath(args, i, wd, st,
                          IF i >= 0 THEN args[i + 1]
                          ELSE IF st.device = <<>> THEN wd
                          ELSE IF toLowerCase(Slice(wd, 0, 2)) # toLowerCase(st.device)
                                  /\ charAt(wd, 2) = "\\"
                               THEN st.device \o <<"\\">>
                               ELSE wd)

win32Resolved(st) ==
    LET out == st.device \o (IF st.abs THEN <<"\\">> ELSE <<>>)
               \o normalizeString("win32", st.tail, ~st.abs)
    IN IF out = <<>> THEN <<".">> ELSE out

win32Resolve(args, wd) ==
    win32Resolved(win32ResolveLoop(args, Len(args) - 1, wd,
                                   [device |-> <<>>, tail |-> <<>>, abs |-> FALSE]))

\* pathFs.resolve
pathResolve(pf, args, wd) ==
    IF pf = "win32" THEN win32Resolve(args, wd) ELSE posixResolve(args, wd)


\* length of the longest common prefix of two sequences
RECURSIVE commonPrefix(_, _)
commonPrefix(x, y) ==
    IF x = <<>> \/ y = <<>> \/ Head(x) # Head(y) THEN 0
    ELSE 1 + commonPrefix(Tail(x), Tail(y))

\* the name segments of a resolved posix path ("/" has none)
resolvedSegs(p) ==
    IF Len(p) <= 1 THEN <<>> ELSE splitSegs("posix", SliceFrom(p, 1), <<>>)

posixRelativeOut(fs, ts, k) ==
    joinSegs([i \in 1..(Len(fs) - k) |-> DotDot] \o SubSeq(ts, k + 1, Len(ts)), "/")

posixRelativeSegs(fs, ts) == posixRelativeOut(fs, ts, commonPrefix(fs, ts))

posixRelativeResolved(f, t) ==
    IF f = t THEN <<>> ELSE posixRelativeSegs(resolvedSegs(f), resolvedSegs(t))

\* path.posix.relative: both sides resolved, one ".." per segment of `from`
\* after the common leading segments, then the remaining segments of `to`
posixRelative(from, to, wd) ==
    IF from = to THEN <<>>
    ELSE posixRelativeResolved(posixResolve(<<from>>, wd), posixResolve(<<to>>, wd))

\* number of leading backslashes
RECURSIVE leadingBackslashes(_)
leadingBackslashes(s) ==
    IF s # <<>> /\ Head(s) = "\\" THEN 1 + leadingBackslashes(Tail(s)) ELSE 0

\* end offset after trimming trailing backslashes, never below start + 1
RECURSIVE trimmedEnd(_, _, _)
trimmedEnd(s, start, end) ==
    IF end - 1 > start /\ s[end] = "\\" THEN trimmedEnd(s, start, end - 1) ELSE end

\* number of offsets i in [lo, hi] with i = hi or s[i] a backslash
dotDotCount(s, lo, hi) ==
    IF lo > hi THEN 0
    ELSE 1 + Cardinality({i \in lo..(hi - 1) : charAt(s, i) = "\\"})

\* offset (from fromStart) of the last backslash among the first i
\* characters compared, or -1
lastCommonSep(from, fromStart, i) ==
    LET seps == {j \in 0..(i - 1) : from[fromStart + j + 1] = "\\"}
    IN IF seps = {} THEN -1 ELSE CHOOSE j \in seps : \A k \in seps : k <= j

\* the ".." elements for what is left of `from`, then what is left of `to`
win32RelativeOut(toOrig, toStart2, toEnd, out) ==
    IF out # <<>> THEN out \o Slice(toOrig, toStart2, toEnd)
    ELSE IF charAt(toOrig, toStart2) = "\\"
         THEN Slice(toOrig, toStart2 + 1, toEnd)
         ELSE Slice(toOrig, toStart2, toEnd)

win32RelativeUp(toOrig, from, fromStart, fromEnd, toStart, toEnd, lcs) ==
    win32RelativeOut(toOrig, toStart + lcs, toEnd,
                     joinSegs([x \in 1..dotDotCount(from, fromStart + lcs + 1, fromEnd)
                               |-> DotDot], "\\"))

win32RelativeSep(toOrig, from, to, fromStart, fromEnd, toStart, toEnd, length, i, lcs0) ==
    LET fromLen == fromEnd - fromStart
        toLen == toEnd - toStart
        lcs1 == IF fromLen > length
                THEN IF charAt(from, fromStart + i) = "\\" THEN i
                     ELSE IF i = 2 THEN 3 ELSE lcs0
                ELSE lcs0
    IN IF i # length /\ lcs0 = -1 THEN toOrig
       ELSE IF i = length /\ toLen > length /\ charAt(to, toStart + i) = "\\"
            THEN Slice(toOrig, toStart + i + 1, Len(toOrig))
       ELSE IF i = length /\ toLen > length /\ i = 2
            THEN Slice(toOrig, toStart + i, Len(toOrig))
       ELSE win32RelativeUp(toOrig, from, fromStart, fromEnd, toStart, toEnd,
                            IF i # length THEN lcs0
                            ELSE IF lcs1 = -1 THEN 0 ELSE lcs1)

win32RelativeCommon(toOrig, from, to, fromStart, fromEnd, toStart, toEnd, length, i) ==
    win32RelativeSep(toOrig, from, to, fromStart, fromEnd, toStart, toEnd, length, i,
                     lastCommonSep(from, fromStart, i))

win32RelativeLength(toOrig, from, to, fromStart, fromEnd, toStart, toEnd, length) ==
    win32RelativeCommon(toOrig, from, to, fromStart, fromEnd, toStart, toEnd, length,
                        commonPrefix(Slice(from, fromStart, fromStart + length),
                                     Slice(to, toStart, toStart + length)))

win32RelativeEnds(toOrig, from, to, fromStart, fromEnd, toStart, toEnd) ==
    win32RelativeLength(toOrig, from, to, fromStart, fromEnd, toStart, toEnd,
                        Min(fromEnd - fromStart, toEnd - toStart))

win32RelativeStarts(toOrig, from, to, fromStart, toStart) ==
    win32RelativeEnds(toOrig, from, to, fromStart, trimmedEnd(from, fromStart, Len(from)),
                      toStart, trimmedEnd(to, toStart, Len(to)))

win32RelativeLower(toOrig, from, to) ==
    IF from = to THEN <<>>
    ELSE win32RelativeStarts(toOrig, from, to, leadingBackslashes(from),
                             leadingBackslashes(to))

win32RelativeResolved(fromOrig, toOrig) ==
    win32RelativeLower(toOrig, toLowerCase(fromOrig), toLowerCase(toOrig))

\* path.win32.relative
win32Relative(fromArg, toArg, wd) ==
    IF fromArg = toArg THEN <<>>
    ELSE win32RelativeResolved(win32Resolve(<<fromArg>>, wd), win32Resolve(<<toArg>>, wd))

\* pathFs.relative
pathRelative(pf, from, to, wd) ==
    IF pf = "win32" THEN win32Relative(from, to, wd) ELSE posixRelative(from, to, wd)

(***************************************************************************)
(* LocalPath                                                               *)
(***************************************************************************)
ABSOLUTE == "ABSOLUTE"
UNC == "UNC"
RELATIVE == "RELATIVE"
DIRECTORY_RELATIVE == "DIRECTORY_RELATIVE"
DRIVE_RELATIVE == "DRIVE_RELATIVE"

\* new LocalPath(fileSystem, type, root, path)
LocalPath(type, root, path) == [type |-> type, root |-> root, path |-> path]

\* LocalPath.reservedChars
reservedChars == {"<", ">", ":", "\"", "|", "?", "*"}

isInvalidPathChar(pf, ch) ==
    IF pf = "win32" THEN CharCode(ch) < 32 \/ ch \in reservedChars ELSE FALSE

\* checkPathCharacters: TRUE when it throws InvalidPathException
checkPathCharacters(pf, path) == \E i \in 1..Len(path) : isInvalidPathChar(pf, path[i])

cleanedSlashes(pf, p) ==
    IF pf = "win32" THEN replaceAllColonPair(replaceAllChar(p, "/", "\\"), "\\")
    ELSE IF strStartsWith(p, <<"/">>) THEN replaceAllPair(p, "/")
    ELSE p

cleanSeparator(pf, path) ==
    cleanedSlashes(pf, collapseSlashes(replaceAllChar(path, "\\", "/")))

InvalidPathException == [exc |-> "InvalidPathException"]
IllegalArgumentException == [exc |-> "IllegalArgumentException"]
NullPointerException == [exc |-> "NullPointerException"]

isException(x) == "exc" \in DOMAIN x

\* the type chosen with the platform separator, not "/", as the mark of an
\* Absolute body
pathTypeOfSeparator(pf, newPath, pathType) ==
    IF strStartsWith(newPath, <<"\\", "\\">>) THEN UNC
    ELSE IF strStartsWith(newPath, <<sep(pf)>>)
            \/ (Len(newPath) >= 3 /\ charAt(newPath, 1) = ":"
                /\ charAt(newPath, 2) = sep(pf))
         THEN ABSOLUTE
    ELSE IF Len(newPath) >= 2 /\ charAt(newPath, 1) = ":"
            /\ charAt(newPath, 2) # sep(pf)
         THEN DRIVE_RELATIVE
    ELSE pathType

\* pathFromJsPath: the type chosen for the body newPath
pathTypeOf(pf, newPath, pathType) ==
    IF strStartsWith(newPath, <<"\\", "\\">>) THEN UNC
    ELSE IF strStartsWith(newPath, <<"/">>)
            \/ (Len(newPath) >= 3 /\ charAt(newPath, 1) = ":"
                /\ charAt(newPath, 2) = sep(pf))
         THEN ABSOLUTE
    ELSE IF Len(newPath) >= 2 /\ charAt(newPath, 1) = ":"
            /\ charAt(newPath, 2) # sep(pf)
         THEN DRIVE_RELATIVE
    ELSE pathType

\* the characters of the whole body checked, the root included
checkedWholePath(pf, root, newPath, pathType) ==
    IF checkPathCharacters(pf, newPath)
    THEN InvalidPathException
    ELSE LocalPath(pathTypeOf(pf, newPath, pathType), root, newPath)

\* pathFromJsPath: checkPathCharacters and the constructor call
checkedPath(pf, root, newPath, pathType) ==
    IF checkPathCharacters(pf, SliceFrom(newPath, Len(root)))
    THEN InvalidPathException
    ELSE LocalPath(pathTypeOf(pf, newPath, pathType), root, newPath)

\* pathFromJsPath: the trailing separator is cut from a body that is not the
\* root, and added to a body (and a root) that is a root longer than 2
trimmedPath(pf, root0, p0, pathType) ==
    LET separator == sep(pf)
        sameAsRoot == toUpperCase(root0) = toUpperCase(p0)
        endsSep == strEndsWith(p0, <<separator>>)
        strip == ~sameAsRoot /\ endsSep
        grow == ~strip /\ sameAsRoot /\ Len(root0) > 2 /\ ~endsSep
    IN checkedPath(pf,
                   IF grow /\ ~strEndsWith(root0, <<separator>>)
                   THEN root0 \o <<separator>> ELSE root0,
                   IF strip THEN Slice(p0, 0, Len(p0) - 1)
                   ELSE IF grow THEN p0 \o <<separator>> ELSE p0,
                   pathType)

\* pathFromJsPath: dir and base are joined
joinedPath(pf, dir, base, root0, pathType) ==
    trimmedPath(pf, root0,
                IF strEndsWith(dir, <<sep(pf)>>) \/ base = <<>> \/ dir = <<>>
                   \/ toUpperCase(dir) = toUpperCase(root0)
                THEN dir \o base ELSE dir \o <<sep(pf)>> \o base,
                pathType)

\* pathFromJsPath(path, fileSystem, pathType)
pathFromJsPath(pf, parsed, pathType) ==
    joinedPath(pf, cleanSeparator(pf, parsed.dir), parsed.base,
               cleanSeparator(pf, parsed.root), pathType)

\* LocalPath.parse(fileSystem, path)
parse(pf, path) == pathFromJsPath(pf, pathParse(pf, path), RELATIVE)


\* LocalFileSystem.getPath(first, more)
RECURSIVE joinMore(_, _, _)
joinMore(pf, path, more) ==
    IF more = <<>> THEN path
    ELSE LET segment == Head(more)
         IN IF segment = <<>> THEN joinMore(pf, path, Tail(more))
            ELSE joinMore(pf,
                          (IF path # <<>> /\ ~strStartsWith(segment, <<sep(pf)>>)
                           THEN path \o <<sep(pf)>> ELSE path) \o segment,
                          Tail(more))

\* getPath with first and all elements of more joined by the separator
getPathJoinsAll(pf, first, more) == parse(pf, joinSegs(<<first>> \o more, sep(pf)))

getPath(pf, first, more) == parse(pf, joinMore(pf, first, more))

\* fileSystem.getPath(first) for a JavaScript value first: null, undefined
\* or a string
getPathOfValue(pf, first) ==
    IF first.kind # "string" THEN NullPointerException
    ELSE getPath(pf, first.value, <<>>)

emptyPath == LocalPath(RELATIVE, <<>>, <<>>)

isEmpty(p) == p.path = <<>>

isAbsolute(p) == p.type = ABSOLUTE \/ p.type = UNC

\* p.toString()
toString(p) == p.path

\* LocalPath.compareTo
RECURSIVE compareFrom(_, _, _)
compareFrom(s1, s2, i) ==
    IF i > Min(Len(s1), Len(s2)) THEN Len(s1) - Len(s2)
    ELSE LET c1 == charToUpperCase(s1[i])
             c2 == charToUpperCase(s2[i])
         IN IF s1[i] # s2[i] /\ c1 # c2
            THEN CharCode(c1[1]) - CharCode(c2[1])
            ELSE compareFrom(s1, s2, i + 1)

compareTo(p, q) == compareFrom(p.path, q.path, 1)

\* LocalPath.equals
equals(p, q) == compareTo(p, q) = 0

\* LocalPath.getRoot (NoPath for null)
NoPath == [null |-> TRUE]

isPath(x) == "path" \in DOMAIN x

getRoot(p) == IF p.root = <<>> THEN NoPath ELSE LocalPath(p.type, p.root, p.root)

\* norm without its last character when it ends with suffix
withoutLast(norm, suffix) ==
    IF strEndsWith(norm, suffix) THEN Slice(norm, 0, Len(norm) - 1) ELSE norm

\* the trailing "." that normalize cuts from norm
withoutTrailingDot(norm) ==
    IF strEndsWith(norm, norm \o <<".">>) \/ strEndsWith(norm, <<":", ".">>)
       \/ (Len(norm) = 1 /\ norm = <<".">>)
    THEN Slice(norm, 0, Len(norm) - 1) ELSE norm

\* normalize with the trailing-dot test widened to any final "."
normalizeCutsAnyDot(pf, p) ==
    parse(pf, withoutLast(pathNormalize(pf, toString(p)), <<".">>))

\* LocalPath.normalize
normalize(pf, p) == parse(pf, withoutTrailingDot(pathNormalize(pf, toString(p))))

\* LocalPath.resolve
resolve(pf, wd, p, other) == parse(pf, pathResolve(pf, <<toString(p), toString(other)>>, wd))

\* relativize without the comparison of the roots
relativizeNoRootCheck(pf, wd, p, child) ==
    IF equals(p, child) THEN emptyPath
    ELSE IF p.type # child.type THEN IllegalArgumentException
    ELSE IF isEmpty(p) THEN child
    ELSE parse(pf, pathRelative(pf, toString(p), toString(child), wd))

\* relativize with the equality test after the type and root comparisons
relativizeEqualsLast(pf, wd, p, child) ==
    IF p.type # child.type THEN IllegalArgumentException
    ELSE IF toUpperCase(p.root) # toUpperCase(child.root) THEN IllegalArgumentException
    ELSE IF equals(p, child) THEN emptyPath
    ELSE IF isEmpty(p) THEN child
    ELSE parse(pf, pathRelative(pf, toString(p), toString(child), wd))

\* relativize with the empty-path case left to pathFs.relative
relativizeNoEmptyCase(pf, wd, p, child) ==
    IF equals(p, child) THEN emptyPath
    ELSE IF p.type # child.type THEN IllegalArgumentException
    ELSE IF toUpperCase(p.root) # toUpperCase(child.root) THEN IllegalArgumentException
    ELSE parse(pf, pathRelative(pf, toString(p), toString(child), wd))

\* LocalPath.relativize
relativize(pf, wd, p, child) ==
    IF equals(p, child) THEN emptyPath
    ELSE IF p.type # child.type THEN IllegalArgumentException
    ELSE IF toUpperCase(p.root) # toUpperCase(child.root) THEN IllegalArgumentException
    ELSE IF isEmpty(p) THEN child
    ELSE parse(pf, pathRelative(pf, toString(p), toString(child), wd))

\* LocalPath.toAbsolutePath
toAbsolutePath(pf, wd, p) ==
    IF isAbsolute(p) THEN p
    ELSE pathFromJsPath(pf, pathParse(pf, pathResolve(pf, <<p.path>>, wd)), ABSOLUTE)


\* LocalPath.initOffsets: the offsets of the name elements in the body
RECURSIVE offsetsFrom(_, _, _, _, _)
offsetsFrom(path, separator, start, off, list) ==
    IF off >= Len(path) THEN (IF start # off THEN Append(list, start) ELSE list)
    ELSE IF path[off + 1] # separator
         THEN offsetsFrom(path, separator, start, off + 1, list)
    ELSE offsetsFrom(path, separator, off + 1, off + 1, Append(list, start))

\* initOffsets without the case of the empty path
initOffsetsOfBody(pf, p) ==
    IF "offsets" \in DOMAIN p THEN p.offsets
    ELSE offsetsFrom(p.path, sep(pf), Len(p.root), Len(p.root), <<>>)

\* a path object has the field offsets once initOffsets has stored the list
initOffsets(pf, p) ==
    IF "offsets" \in DOMAIN p THEN p.offsets
    ELSE IF isEmpty(p) THEN <<0>>
    ELSE offsetsFrom(p.path, sep(pf), Len(p.root), Len(p.root), <<>>)

\* the stored offsets computed from the start of the body, not from the end
\* of the root
withOffsetsOfWholeBody(pf, p) ==
    [type |-> p.type, root |-> p.root, path |-> p.path,
     offsets |-> IF "offsets" \in DOMAIN p THEN p.offsets
                 ELSE offsetsFrom(p.path, sep(pf), 0, 0, <<>>)]

\* the object p after this.offsets = this.initOffsets()
withOffsets(pf, p) ==
    [type |-> p.type, root |-> p.root, path |-> p.path, offsets |-> initOffsets(pf, p)]

\* startsWith and endWith reach this.getNameCount()
startsWithReadsOffsets(p, other) ==
    /\ toUpperCase(p.root) = toUpperCase(other.root)
    /\ ~isEmpty(other)
    /\ ~equals(p, other)

endWithReadsOffsets(p, other) == Len(other.path) <= Len(p.path) /\ ~isEmpty(other)

\* LocalPath.getNameCount
getNameCount(pf, p) == Len(initOffsets(pf, p))

\* LocalPath.elementAsString(i) of a path with body path and offsets
elementAt(path, offsets, i) ==
    IF i = Len(offsets) - 1 THEN SliceFrom(path, offsets[i + 1])
    ELSE Slice(path, offsets[i + 1], offsets[i + 2] - 1)

elementAsString(pf, p, i) == elementAt(p.path, initOffsets(pf, p), i)

\* startsWith: the comparison of the elements, given both offset lists
startsWithElements(thisPath, thisOffsets, otherPath, otherOffsets) ==
    /\ Len(otherOffsets) <= Len(thisOffsets)
    /\ \A k \in 0..(Len(otherOffsets) - 1) :
           toUpperCase(elementAt(thisPath, thisOffsets, k))
               = toUpperCase(elementAt(otherPath, otherOffsets, k))

\* LocalPath.startsWith
startsWith(pf, p, other) ==
    IF toUpperCase(p.root) # toUpperCase(other.root) THEN FALSE
    ELSE IF isEmpty(other) THEN isEmpty(p)
    ELSE IF equals(p, other) THEN TRUE
    ELSE startsWithElements(p.path, initOffsets(pf, p), other.path, initOffsets(pf, other))

\* endWith: the comparison of the counts, the roots and the elements
endWithElements(p, other, thisOffsets, otherOffsets) ==
    IF Len(otherOffsets) > Len(thisOffsets) THEN FALSE
    ELSE IF other.root # <<>>
            /\ (Len(otherOffsets) < Len(thisOffsets)
                \/ toUpperCase(p.root) # toUpperCase(other.root))
         THEN FALSE
    ELSE \A k \in 0..(Len(otherOffsets) - 1) :
             toUpperCase(elementAt(p.path, thisOffsets,
                                   Len(thisOffsets) - Len(otherOffsets) + k))
                 = toUpperCase(elementAt(other.path, otherOffsets, k))

\* LocalPath.endWith
endWith(pf, p, other) ==
    IF Len(other.path) > Len(p.path) THEN FALSE
    ELSE IF isEmpty(other) THEN isEmpty(p)
    ELSE endWithElements(p, other, initOffsets(pf, p), initOffsets(pf, other))

\* getFileName: the offset at which the last name starts
fileNameOffset(root, off) == IF off < Len(root) THEN Len(root) ELSE off + 1

\* getFileName without the case of the root-only path
getFileNameOfBody(pf, p) ==
    IF Len(p.path) = 0 THEN p
    ELSE LocalPath(RELATIVE, <<>>,
                   SliceFrom(p.path, fileNameOffset(p.root, lastIndexOf(p.path, sep(pf)))))

\* LocalPath.getFileName
getFileName(pf, p) ==
    IF Len(p.path) = 0 THEN p
    ELSE IF Len(p.root) = Len(p.path) THEN NoPath
    ELSE LocalPath(RELATIVE, <<>>,
                   SliceFrom(p.path, fileNameOffset(p.root, lastIndexOf(p.path, sep(pf)))))

\* LocalPath.getName
getName(pf, p, index) ==
    IF index < 0 \/ index >= Len(initOffsets(pf, p)) THEN IllegalArgumentException
    ELSE LocalPath(RELATIVE, <<>>, elementAsString(pf, p, index))

\* LocalPath.getParent
getParent(pf, p) ==
    IF Len(p.root) = Len(p.path) THEN NoPath
    ELSE IF lastIndexOf(p.path, sep(pf)) < Len(p.root) THEN getRoot(p)
    ELSE LocalPath(p.type, p.root, Slice(p.path, 0, lastIndexOf(p.path, sep(pf))))

\* subpath: the loop that joins the elements i .. endIndex - 1
RECURSIVE subpathFrom(_, _, _, _, _)
subpathFrom(pf, p, i, endIndex, path) ==
    IF i >= endIndex THEN path
    ELSE subpathFrom(pf, p, i + 1, endIndex,
                     path \o elementAsString(pf, p, i)
                          \o (IF i # endIndex - 1 THEN <<sep(pf)>> ELSE <<>>))

\* subpath that refuses an endIndex equal to the number of names
subpathBelowCount(pf, p, beginIndex, endIndex) ==
    IF beginIndex < 0 THEN IllegalArgumentException
    ELSE IF beginIndex >= Len(initOffsets(pf, p)) THEN IllegalArgumentException
    ELSE IF endIndex >= Len(initOffsets(pf, p)) THEN IllegalArgumentException
    ELSE IF beginIndex >= endIndex THEN IllegalArgumentException
    ELSE LocalPath(RELATIVE, <<>>, subpathFrom(pf, p, beginIndex, endIndex, <<>>))

\* LocalPath.subpath
subpath(pf, p, beginIndex, endIndex) ==
    IF beginIndex < 0 THEN IllegalArgumentException
    ELSE IF beginIndex >= Len(initOffsets(pf, p)) THEN IllegalArgumentException
    ELSE IF endIndex > Len(initOffsets(pf, p)) THEN IllegalArgumentException
    ELSE IF beginIndex >= endIndex THEN IllegalArgumentException
    ELSE LocalPath(RELATIVE, <<>>, subpathFrom(pf, p, beginIndex, endIndex, <<>>))

\* the loops of getFileStore from mount point i on; mounts lists the mount
\* points of the stores in enumeration order, each with its store
RECURSIVE fileStoreFrom(_, _, _, _, _)
fileStoreFrom(pf, absolutePath, mounts, i, found) ==
    IF i > Len(mounts) THEN found
    ELSE IF /\ startsWith(pf, absolutePath, mounts[i].mountPoint)
            /\ \/ ~isPath(found.mountPoint)
               \/ startsWith(pf, mounts[i].mountPoint, found.mountPoint)
         THEN fileStoreFrom(pf, absolutePath, mounts, i + 1, mounts[i])
    ELSE fileStoreFrom(pf, absolutePath, mounts, i + 1, found)

\* LocalFileSystemProvider.getFileStore
getFileStore(pf, wd, p, mounts) ==
    IF isPath(fileStoreFrom(pf, toAbsolutePath(pf, wd, p), mounts, 1,
                            [store |-> 0, mountPoint |-> NoPath]).mountPoint)
    THEN fileStoreFrom(pf, toAbsolutePath(pf, wd, p), mounts, 1,
                       [store |-> 0, mountPoint |-> NoPath])
    ELSE IllegalArgumentException

\* the files of the directory, each with its content or absent
FileNames == {"s", "t"}

Contents == {"x", "y"}

Absent == "absent"

\* StandardCopyOption
REPLACE_EXISTING == "REPLACE_EXISTING"
COPY_ATTRIBUTES == "COPY_ATTRIBUTES"
ATOMIC_MOVE == "ATOMIC_MOVE"

\* fs.constants
COPYFILE_EXCL == "COPYFILE_EXCL"
COPYFILE_FICLONE == "COPYFILE_FICLONE"

\* mapCopyOptionsToFlags: the list flags
copyFlags(options) ==
    (IF REPLACE_EXISTING \notin options THEN <<COPYFILE_EXCL>> ELSE <<>>)
        \o (IF ATOMIC_MOVE \in options THEN <<COPYFILE_FICLONE>> ELSE <<>>)

\* the outcome of a file operation: the files after it and what it threw
Done(fs) == [files |-> fs, exc |-> "none"]
Thrown(fs, exc) == [files |-> fs, exc |-> exc]

\* fsAsync.copyFile(source, target, flags)
copyFile(fs, source, target, flags) ==
    IF fs[source] = Absent THEN Thrown(fs, "ENOENT")
    ELSE IF fs[target] # Absent /\ \E i \in 1..Len(flags) : flags[i] = COPYFILE_EXCL
         THEN Thrown(fs, "EEXIST")
    ELSE Done([fs EXCEPT ![target] = fs[source]])

\* LocalFileSystemProvider.copy: reduce without an initial value throws
\* TypeError for an empty list of flags
copy(fs, source, target, options) ==
    IF copyFlags(options) = <<>> THEN Thrown(fs, "TypeError")
    ELSE copyFile(fs, source, target, copyFlags(options))

\* LocalFileSystemProvider.delete: checkAccess for WRITE, then fsAsync.rm
delete(fs, path) ==
    IF fs[path] = Absent THEN Thrown(fs, "AccessDeniedException")
    ELSE Done([fs EXCEPT ![path] = Absent])

\* deleteIfExists of the provider
deleteIfExists(fs, path) == Done([fs EXCEPT ![path] = Absent])

\* move: what follows the copy, whose outcome is copied
moveAfterCopy(copied, source, target) ==
    IF copied.exc # "none" THEN deleteIfExists(copied.files, target)
    ELSE IF delete(copied.files, source).exc # "none"
         THEN deleteIfExists(delete(copied.files, source).files, target)
    ELSE delete(copied.files, source)

\* LocalFileSystemProvider.move
move(fs, source, target, options) ==
    moveAfterCopy(copy(fs, source, target, options), source, target)

\* PosixFilePermission
PosixFilePermissions ==
    {"OWNER_READ", "OWNER_WRITE", "OWNER_EXECUTE", "GROUP_READ", "GROUP_WRITE",
     "GROUP_EXECUTE", "OTHERS_READ", "OTHERS_WRITE", "OTHERS_EXECUTE"}

\* the amount added for perm when it is in perms
added(perms, perm, amount) == IF perm \in perms THEN amount ELSE 0

\* convertPermissionsToPosix
convertPermissionsToPosix(perms) ==
    (added(perms, "OWNER_READ", 4) + added(perms, "OWNER_WRITE", 2)
         + added(perms, "OWNER_EXECUTE", 1)) * 100
    + (added(perms, "GROUP_READ", 4) + added(perms, "GROUP_WRITE", 2)
         + added(perms, "GROUP_EXECUTE", 1)) * 10
    + (added(perms, "OTHERS_READ", 4) + added(perms, "OTHERS_WRITE", 2)
         + added(perms, "OTHERS_EXECUTE", 1))

\* fs.constants.S_I*: the mode bit of each permission
modeBit(perm) ==
    CASE perm = "OWNER_READ" -> 256
      [] perm = "OWNER_WRITE" -> 128
      [] perm = "OWNER_EXECUTE" -> 64
      [] perm = "GROUP_READ" -> 32
      [] perm = "GROUP_WRITE" -> 16
      [] perm = "GROUP_EXECUTE" -> 8
      [] perm = "OTHERS_READ" -> 4
      [] perm = "OTHERS_WRITE" -> 2
      [] perm = "OTHERS_EXECUTE" -> 1

\* convertPosixPermissions: perms & bit for each permission
convertPosixPermissions(perms) ==
    {perm \in PosixFilePermissions : (perms \div modeBit(perm)) % 2 = 1}

\* stats.mode of a regular file after chmod(path, mode)
S_IFREG == 32768

statsMode(mode) == S_IFREG + (mode % 4096)

(***************************************************************************)
(* Node.js url: pathToFileURL, the URL pathname setter and fileURLToPath.   *)
(* A URL is its hostname and pathname; a percent-encoded character is one  *)
(* element of the pathname ("%5C" for a backslash).                        *)
(***************************************************************************)
\* encodePathChars: "%" always, "\" on posix only
encodePathChars(pf, s) ==
    [i \in 1..Len(s) |-> IF s[i] = "%" THEN "%25"
                         ELSE IF pf # "win32" /\ s[i] = "\\" THEN "%5C"
                         ELSE s[i]]

\* the path percent-encode set of the URL parser, for the model's characters
urlEncodeChar(ch) ==
    CASE ch = "sz" -> "%C3%9F"
      [] ch = "?" -> "%3F"
      [] ch = "#" -> "%23"
      [] OTHER -> ch

\* decodeURIComponent of one element
urlDecodeChar(ch) ==
    CASE ch = "%25" -> "%"
      [] ch = "%5C" -> "\\"
      [] ch = "%C3%9F" -> "sz"
      [] ch = "%3F" -> "?"
      [] ch = "%23" -> "#"
      [] OTHER -> ch

isDriveLetterSeg(sg) == Len(sg) = 2 /\ isWindowsDeviceRoot(sg[1]) /\ sg[2] \in {":", "|"}

\* the path state of the URL parser for a file: URL, on the segments of the
\* input: "." is dropped, ".." shortens the path (never below a drive
\* letter), a first segment that is a drive letter is normalised to "X:"
RECURSIVE urlPathSegs(_, _)
urlPathSegs(segs, acc) ==
    IF segs = <<>> THEN acc
    ELSE LET sg == Head(segs)
             last == Len(segs) = 1
             short == IF acc = <<>> \/ (Len(acc) = 1 /\ isDriveLetterSeg(acc[1])
                                        /\ acc[1][2] = ":")
                      THEN acc ELSE SubSeq(acc, 1, Len(acc) - 1)
         IN IF sg = DotDot
            THEN urlPathSegs(Tail(segs), IF last THEN Append(short, <<>>) ELSE short)
            ELSE IF sg = <<".">>
                 THEN urlPathSegs(Tail(segs), IF last THEN Append(acc, <<>>) ELSE acc)
            ELSE IF acc = <<>> /\ isDriveLetterSeg(sg)
                 THEN urlPathSegs(Tail(segs), <<(<<sg[1], ":">>)>>)
            ELSE urlPathSegs(Tail(segs), Append(acc, sg))

\* url.pathname = input, for a file: URL ("\" is a separator as "/" is)
urlSetPathname(input) ==
    LET enc == [i \in 1..Len(input) |-> urlEncodeChar(input[i])]
        rest == IF enc # <<>> /\ isPathSeparator("win32", enc[1]) THEN Tail(enc) ELSE enc
    IN <<"/">> \o joinSegs(urlPathSegs(splitSegs("win32", rest, <<>>), <<>>), "/")

TypeError == [exc |-> "TypeError"]

\* domainToASCII: the host parser lowercases, and fails (empty result) on a
\* forbidden host code point
domainToASCII(h) ==
    IF \E i \in 1..Len(h) : h[i] \in {":", "/", "\\", "?", "#", "%", "|", "<", ">"}
    THEN <<>> ELSE toLowerCase(h)

\* new URL("file://"), with the hostname and the pathname set
fileURL(hostname, pathname) ==
    [protocol |-> "file:", hostname |-> hostname, pathname |-> pathname,
     search |-> <<>>, hash |-> <<>>]

\* pathToFileURL of a UNC path split at its separators
uncToFileURL(pf, paths) ==
    IF Len(paths) <= 3 THEN TypeError
    ELSE IF paths[3] = <<>> THEN TypeError
    ELSE fileURL(domainToASCII(paths[3]),
                 urlSetPathname(encodePathChars(pf, joinSegs(SubSeq(paths, 4, Len(paths)),
                                                             "/"))))

\* the resolved path r0, with the trailing separator of the input kept
withTrailingSlash(pf, last, r0) ==
    IF (last = "/" \/ (pf = "win32" /\ last = "\\")) /\ charAt(r0, Len(r0) - 1) # sep(pf)
    THEN r0 \o <<"/">> ELSE r0

\* url.pathToFileURL(filepath)
pathToFileURL(pf, wd, filepath) ==
    IF pf = "win32" /\ strStartsWith(filepath, <<"\\", "\\">>)
    THEN uncToFileURL(pf, splitSegs("posix", replaceAllChar(filepath, "\\", "/"), <<>>))
    ELSE fileURL(<<>>,
                 urlSetPathname(encodePathChars(pf,
                     withTrailingSlash(pf, charAt(filepath, Len(filepath) - 1),
                                       pathResolve(pf, <<filepath>>, wd)))))

\* getPathFromURLWin32 and getPathFromURLPosix: [str |-> the path] or
\* TypeError
pathOfFileURL(pf, url) ==
    LET decoded == [i \in 1..Len(url.pathname) |-> urlDecodeChar(url.pathname[i])]
    IN IF pf = "win32"
       THEN LET pathname == [i \in 1..Len(url.pathname) |->
                                urlDecodeChar(IF url.pathname[i] = "/" THEN "\\"
                                              ELSE url.pathname[i])]
            IN IF \E i \in 1..Len(url.pathname) : url.pathname[i] \in {"%2F", "%5C"}
               THEN TypeError
               ELSE IF url.hostname # <<>>
               THEN [str |-> <<"\\", "\\">> \o url.hostname \o pathname]
               ELSE IF ~isWindowsDeviceRoot(charAt(pathname, 1)) \/ charAt(pathname, 2) # ":"
                    THEN TypeError
               ELSE [str |-> SliceFrom(pathname, 1)]
       ELSE IF url.hostname # <<>> THEN TypeError
       ELSE IF \E i \in 1..Len(url.pathname) : url.pathname[i] = "%2F" THEN TypeError
       ELSE [str |-> decoded]

\* url.fileURLToPath(url): [str |-> the path] or TypeError
fileURLToPath(pf, url) ==
    IF url.protocol # "file:" THEN TypeError ELSE pathOfFileURL(pf, url)

\* LocalPath.toURL
urlOf(pf, wd, abs) ==
    IF isException(abs) THEN abs ELSE pathToFileURL(pf, wd, toString(abs))

toURL(pf, wd, p) == urlOf(pf, wd, toAbsolutePath(pf, wd, p))

\* LocalFileSystemProvider.getPath(url)
getPathCleaned(pf, urlCleaned) ==
    IF isException(urlCleaned) THEN IllegalArgumentException
    ELSE getPath(pf, urlCleaned.str, <<>>)

getPathFromURL(pf, url) == getPathCleaned(pf, fileURLToPath(pf, url))

(***************************************************************************)
(* The state machine: a process on one platform with a working directory   *)
(* builds paths with getPath into two registers and applies the path       *)
(* operations to them; res records the last operation and its outcome.     *)
(***************************************************************************)
MaxNames == 1

MaxRaw == 5

MaxCmpLen == 2

Platforms == {"posix", "win32"}

\* process.cwd()
Cwds(pf) ==
    IF pf = "win32" THEN {<<"C", ":", "\\">>, <<"C", ":", "\\", "d">>}
    ELSE {<<"/">>, <<"/", "d">>}

\* name elements and prefixes the input strings of the two-path operations
\* are made of
Names == {<<"a">>, <<"A">>, <<"b">>, <<".">>, <<".", ".">>}

Prefixes(pf) ==
    IF pf = "win32"
    THEN {<<>>, <<"C", ":">>, <<"C", ":", "\\">>, <<"c", ":", "\\">>, <<"D", ":", "\\">>,
          <<"\\", "\\", "s", "\\", "b", "\\">>}
    ELSE {<<>>, <<"/">>, <<"\\", "/">>}

\* longer name sequences that are always among the inputs
LongNameSeqs ==
    {<< <<"a">>, <<"b">> >>, << <<"a">>, <<".", ".">> >>, << <<".", ".">>, <<"b">> >>,
     << <<"a">>, <<".">>, <<"b">> >>}

NameSeqs == UNION {[1..n -> Names] : n \in 0..MaxNames} \cup LongNameSeqs

\* the strings handed to getPath by the two-path operations
Inputs(pf) == {pre \o joinSegs(ns, sep(pf)) : pre \in Prefixes(pf), ns \in NameSeqs}

\* the strings handed to getPath by the one-path operations: every string
\* of at most MaxRaw of these characters, and some longer ones
RawChars == {"c", ".", "/", "\\", ":"}

LongRaw(pf) ==
    IF pf = "win32"
    THEN {<<"\\", "\\", "c", "\\", "c">>, <<"\\", "\\", "c", "\\", "c", "\\", "c">>,
          <<"\\", "\\", "c", "\\", "c", "\\", "c", "\\", ".", ".">>,
          <<"\\", "\\", "c", "\\", "c", "\\", ".", ".", "\\", "c">>,
          <<"c", ":", "\\", "c", "\\", ".", ".", "\\", ".", ".">>,
          <<"c", ":", "c", "\\", ".", ".", "\\", "c">>,
          <<"/", "/", "/", "c", "/", "c">>}
    ELSE {<<"c", ":", "/", "/", "c", "/", "c">>, <<"/", "c", "/", ".", ".", "/", ".", ".">>,
          <<"c", "/", ".", ".", "/", ".", ".", "/", "c">>,
          <<"/", "c", "/", "c", "\\", ".", ".">>}

RawInputs(pf) == UNION {[1..n -> RawChars] : n \in 0..MaxRaw} \cup LongRaw(pf)

\* the strings compared by the ordering operations
CmpChars == {"s", "sz", "a"}

CmpInputs == UNION {[1..n -> CmpChars] : n \in 1..MaxCmpLen}

NoRes == [op |-> "none"]

Init ==
    /\ platform \in Platforms
    /\ cwd \in Cwds(platform)
    /\ a = NoPath
    /\ b = NoPath
    /\ res = NoRes
    /\ files = [name \in FileNames |-> Absent]

\* a = fileSystem.getPath(first)
GetPathA ==
    /\ a = NoPath
    /\ \E first \in Inputs(platform) :
        LET r == getPath(platform, first, <<>>)
        IN /\ isPath(r)
           /\ a' = r
           /\ res' = NoRes
           /\ UNCHANGED <<files, platform, cwd, b>>

\* b = fileSystem.getPath(first)
GetPathB ==
    /\ isPath(a) /\ b = NoPath
    /\ \E first \in Inputs(platform) :
        LET r == getPath(platform, first, <<>>)
        IN /\ isPath(r)
           /\ b' = r
           /\ res' = NoRes
           /\ UNCHANGED <<files, platform, cwd, a>>

\* a.resolve(b)
Resolve ==
    /\ isPath(a) /\ isPath(b)
    /\ res' = [op |-> "resolve", this |-> a, other |-> b,
               out |-> resolve(platform, cwd, a, b)]
    /\ UNCHANGED <<files, platform, cwd, a, b>>

\* a.relativize(b)
Relativize ==
    /\ isPath(a) /\ isPath(b)
    /\ res' = [op |-> "relativize", this |-> a, other |-> b,
               out |-> relativize(platform, cwd, a, b)]
    /\ UNCHANGED <<files, platform, cwd, a, b>>

\* a.resolve(r) for the path r that a.relativize(b) has just returned
ResolveRelativized ==
    /\ res.op = "relativize" /\ isPath(res.out)
    /\ res' = [op |-> "resolveRelativized", this |-> res.this, other |-> res.other,
               rel |-> res.out,
               out |-> resolve(platform, cwd, res.this, res.out)]
    /\ UNCHANGED <<files, platform, cwd, a, b>>

\* a.equals(b)
Equals ==
    /\ isPath(a) /\ isPath(b)
    /\ res' = [op |-> "equals", this |-> a, other |-> b, out |-> equals(a, b)]
    /\ UNCHANGED <<files, platform, cwd, a, b>>

Next == GetPathA \/ GetPathB \/ Resolve \/ Relativize \/ ResolveRelativized \/ Equals

Spec == Init /\ [][Next]_vars

(***************************************************************************)
(* One-path operations                                                     *)
(***************************************************************************)
\* a = fileSystem.getPath(first) for an arbitrary string; a failure leaves
\* a unset
GetPathRaw ==
    /\ a = NoPath /\ res = NoRes
    /\ \E first \in RawInputs(platform) :
        LET r == getPath(platform, first, <<>>)
        IN /\ a' = IF isPath(r) THEN r ELSE a
           /\ res' = [op |-> "getPath", first |-> first, out |-> r]
           /\ UNCHANGED <<files, platform, cwd, b>>

\* fileSystem.getPath(a.toString())
Reparse ==
    /\ isPath(a)
    /\ res' = [op |-> "reparse", this |-> a, out |-> getPath(platform, toString(a), <<>>)]
    /\ UNCHANGED <<files, platform, cwd, a, b>>

\* a.normalize()
Normalize ==
    /\ isPath(a)
    /\ res' = [op |-> "normalize", this |-> a, out |-> normalize(platform, a)]
    /\ UNCHANGED <<files, platform, cwd, a, b>>

\* n.normalize() for the path n that a.normalize() has just returned
NormalizeAgain ==
    /\ res.op = "normalize" /\ isPath(res.out)
    /\ res' = [op |-> "normalizeAgain", this |-> res.this, first |-> res.out,
               out |-> normalize(platform, res.out)]
    /\ UNCHANGED <<files, platform, cwd, a, b>>

\* a.toURL()
ToURL ==
    /\ isPath(a)
    /\ res' = [op |-> "toURL", this |-> a, out |-> toURL(platform, cwd, a)]
    /\ UNCHANGED <<files, platform, cwd, a, b>>

\* provider.getPath(u) for the URL u that a.toURL() has just returned
GetPathOfURL ==
    /\ res.op = "toURL" /\ ~isException(res.out)
    /\ res' = [op |-> "getPathOfURL", this |-> res.this, url |-> res.out,
               out |-> getPathFromURL(platform, res.out)]
    /\ UNCHANGED <<files, platform, cwd, a, b>>

\* URL objects handed to the provider: other schemes, hosts, queries and
\* fragments included
URLs ==
    [protocol : {"file:", "http:"},
     hostname : {<<>>, <<"s">>},
     pathname : {<<"/">>, <<"/", "c">>, <<"/", "c", ":", "/", "c">>, <<"/", "c", "%5C", "c">>},
     search : {<<>>, <<"?", "q">>},
     hash : {<<>>, <<"#", "f">>}]

\* provider.getPath(url) for a URL object
GetPathOfURLObject ==
    /\ a = NoPath /\ res = NoRes
    /\ \E url \in URLs :
        res' = [op |-> "getPathOfURLObject", url |-> url,
                out |-> getPathFromURL(platform, url)]
    /\ UNCHANGED <<files, platform, cwd, a, b>>

MaxMore == 2

\* the first strings and the further elements joined by getPath
FirstInputs(pf) ==
    {<<>>, <<"c">>, <<sep(pf)>>, <<"c", sep(pf)>>, <<"c", ":">>, <<".">>,
     <<"\\", "\\", "c", "\\", "c">>}

MoreElems(pf) ==
    {<<>>, <<"c">>, <<sep(pf), "c">>, <<"c", sep(pf)>>, <<sep(pf)>>, <<"/", "c">>,
     <<"c", "/">>}

MoreInputs(pf) == UNION {[1..n -> MoreElems(pf)] : n \in 0..MaxMore}

\* fileSystem.getPath(first, more), and the same call without the empty
\* elements of more
GetPathMore ==
    /\ a = NoPath /\ res = NoRes
    /\ \E first \in FirstInputs(platform), more \in MoreInputs(platform) :
        res' = [op |-> "getPathMore", first |-> first, more |-> more,
                out |-> getPath(platform, first, more),
                compact |-> getPath(platform, first, SelectSeq(more, LAMBDA e : e # <<>>))]
    /\ UNCHANGED <<files, platform, cwd, a, b>>

\* strings with control and reserved characters in and after the root
SpecialInputs ==
    {<<"\t">>, <<"c", "\t">>, <<"c", ":", "\\", "\t">>, <<"<">>, <<"c", ">">>,
     <<"c", ":", "\\", "?">>, <<"c", ":", "*">>, <<"\"", "c">>, <<"/", "|">>,
     <<"c", ":", "\\", "c", ":">>, <<"\\", "\\", "c", "\\", "c", "\\", "?">>,
     <<"\\", "\\", "?", "\\", "c">>, <<"\\", "\\", "?", "\\", "c", "\\", "c">>,
     <<"c", ":", "/", "c">>, <<"c", "%", "#">>}

\* the values passed as first: null, undefined and strings
FirstValues ==
    {[kind |-> "null"], [kind |-> "undefined"]}
        \cup {[kind |-> "string", value |-> s] : s \in SpecialInputs}

\* fileSystem.getPath(first) for a value first
GetPathOfValue ==
    /\ a = NoPath /\ res = NoRes
    /\ \E first \in FirstValues :
        res' = [op |-> "getPathOfValue", first |-> first,
                out |-> getPathOfValue(platform, first)]
    /\ UNCHANGED <<files, platform, cwd, a, b>>

\* a.toAbsolutePath()
ToAbsolutePath ==
    /\ isPath(a)
    /\ res' = [op |-> "toAbsolutePath", this |-> a,
               out |-> toAbsolutePath(platform, cwd, a)]
    /\ UNCHANGED <<files, platform, cwd, a, b>>

NextPath ==
    \/ GetPathRaw
    \/ Reparse
    \/ Normalize
    \/ NormalizeAgain
    \/ ToURL
    \/ GetPathOfURL
    \/ ToAbsolutePath
    \/ GetPathOfURLObject
    \/ GetPathMore
    \/ GetPathOfValue

SpecPath == Init /\ [][NextPath]_vars

(***************************************************************************)
(* Ordering                                                                *)
(***************************************************************************)
\* a = fileSystem.getPath(first), b = fileSystem.getPath(second)
GetPathsCmp ==
    /\ a = NoPath
    /\ \E first \in CmpInputs, second \in CmpInputs :
        /\ a' = getPath(platform, first, <<>>)
        /\ b' = getPath(platform, second, <<>>)
        /\ res' = NoRes
        /\ UNCHANGED <<files, platform, cwd>>

\* a.compareTo(b), b.compareTo(a), and both against a third path c
CompareTo ==
    /\ isPath(a) /\ isPath(b) /\ res = NoRes
    /\ \E third \in CmpInputs :
        LET c == getPath(platform, third, <<>>)
        IN res' = [op |-> "compareTo", c |-> c,
                   ab |-> compareTo(a, b), ba |-> compareTo(b, a),
                   bc |-> compareTo(b, c), ac |-> compareTo(a, c),
                   eq |-> equals(a, b)]
    /\ UNCHANGED <<files, platform, cwd, a, b>>

NextOrder == GetPathsCmp \/ CompareTo

SpecOrder == Init /\ [][NextOrder]_vars


(***************************************************************************)
(* Name elements                                                           *)
(***************************************************************************)
MaxElems == 1

\* the names and prefixes of the paths whose elements are compared
ElemNames == {<<"a">>, <<"A">>, <<"s">>, <<"sz">>, <<"S", "S">>}

ElemPrefixes(pf) ==
    IF pf = "win32"
    THEN {<<>>, <<"C", ":", "\\">>, <<"c", ":", "\\">>, <<"D", ":", "\\">>}
    ELSE {<<>>, <<"/">>, <<"\\", "/">>}

LongElemSeqs ==
    {<< <<"a">>, <<"s">> >>, << <<"s">>, <<"a">> >>, << <<"sz">>, <<"a">> >>,
     << <<"A">>, <<"a">> >>}

ElemSeqs == UNION {[1..n -> ElemNames] : n \in 0..MaxElems} \cup LongElemSeqs

ElemInputs(pf) == {pre \o joinSegs(ns, sep(pf)) : pre \in ElemPrefixes(pf), ns \in ElemSeqs}

\* a = fileSystem.getPath(first), b = fileSystem.getPath(second)
GetPathsElems ==
    /\ a = NoPath
    /\ \E first \in ElemInputs(platform), second \in ElemInputs(platform) :
        /\ a' = getPath(platform, first, <<>>)
        /\ b' = getPath(platform, second, <<>>)
        /\ res' = NoRes
        /\ UNCHANGED <<files, platform, cwd>>

\* a.startsWith(b)
StartsWith ==
    /\ isPath(a) /\ isPath(b)
    /\ res' = [op |-> "startsWith", this |-> a, other |-> b,
               out |-> startsWith(platform, a, b)]
    /\ UNCHANGED <<files, platform, cwd, a, b>>

\* a.endWith(b)
EndWith ==
    /\ isPath(a) /\ isPath(b)
    /\ res' = [op |-> "endWith", this |-> a, other |-> b, out |-> endWith(platform, a, b)]
    /\ UNCHANGED <<files, platform, cwd, a, b>>

MaxMounts == 2

\* the mount points reported for the drives
MountPoints(pf) ==
    IF pf = "win32"
    THEN {<<"C", ":", "\\">>, <<"C", ":", "\\", "a">>, <<"D", ":", "\\">>,
          <<"C", ":", "\\", "s">>}
    ELSE {<<"/">>, <<"/", "a">>, <<"/", "s">>, <<"/", "sz", "/", "a">>}

\* the stores number their mount points in enumeration order: the first
\* belongs to store 1, each later one to the same store or to the next
storesInOrder(stores) ==
    /\ Len(stores) >= 1 => stores[1] = 1
    /\ \A i \in 2..Len(stores) : stores[i] \in {stores[i - 1], stores[i - 1] + 1}

\* fileSystem.getFileStores() with the mount points of each store
FileStores(pf) ==
    UNION {{[i \in 1..n |-> [store |-> st[i],
                             mountPoint |-> getPath(pf, mp[i], <<>>)]] :
                st \in {s \in [1..n -> 1..n] : storesInOrder(s)},
                mp \in [1..n -> MountPoints(pf)]} : n \in 0..MaxMounts}

\* a = fileSystem.getPath(first), then provider.getFileStore(a)
GetFileStore ==
    /\ a = NoPath
    /\ \E first \in ElemInputs(platform), mounts \in FileStores(platform) :
        /\ a' = getPath(platform, first, <<>>)
        /\ res' = [op |-> "getFileStore", this |-> getPath(platform, first, <<>>),
                   mounts |-> mounts,
                   out |-> getFileStore(platform, cwd, getPath(platform, first, <<>>),
                                        mounts)]
    /\ UNCHANGED <<files, platform, cwd, b>>

NextElems == GetPathsElems \/ StartsWith \/ EndWith \/ GetFileStore

SpecElems == Init /\ [][NextElems]_vars

(***************************************************************************)
(* Names of one path                                                       *)
(***************************************************************************)
MaxNameRaw == 3

MaxIndex == 2

NameRawChars == {"c", "/", "\\", ":"}

LongNameRaw(pf) ==
    IF pf = "win32"
    THEN {<<"\\", "\\", "c", "\\", "d">>, <<"\\", "\\", "c", "\\", "d", "\\">>,
          <<"\\", "\\", "c", "\\", "d", "\\", "c">>,
          <<"\\", "\\", "c", "\\", "d", "\\", "c", "\\", "d">>,
          <<"c", ":", "\\", "c", "\\", "d">>, <<"c", ":", "c", "\\", "d">>,
          <<"c", "\\", "d", "\\", "c">>, <<"/", "/", "/", "c", "/", "d">>,
          <<"c", ":", "\\", "d">>, <<"\\", "c", "\\", "d">>, <<"c", ":", "c", "\\">>,
          <<"c", "/", "/", "/", "d">>, <<"c", ":", "/", "/", "/", "d">>,
          <<"\\", "\\", "\\", "\\", "c">>}
    ELSE {<<"/", "c", "/", "d", "/", "c">>, <<"c", "/", "d", "/", "c">>,
          <<"/", "c", "/", "/", "d">>, <<"/", "c", "/", "d">>, <<"c", ":", "/", "d">>,
          <<"c", "/", "/", "/", "d">>, <<"c", ":", "/", "/", "/", "d">>,
          <<"/", "/", "/", "/", "c">>}

NameRawInputs(pf) == UNION {[1..n -> NameRawChars] : n \in 0..MaxNameRaw} \cup LongNameRaw(pf)

\* the indices passed to getName and subpath
Indices == -1..MaxIndex

\* a = fileSystem.getPath(first); a failure leaves a unset
GetPathNames ==
    /\ a = NoPath /\ res = NoRes
    /\ \E first \in NameRawInputs(platform) :
        LET r == getPath(platform, first, <<>>)
        IN /\ a' = IF isPath(r) THEN r ELSE a
           /\ res' = [op |-> "getPath", first |-> first, out |-> r]
    /\ UNCHANGED <<files, platform, cwd, b>>

\* a.getNameCount()
GetNameCount ==
    /\ isPath(a)
    /\ res' = [op |-> "getNameCount", this |-> a, out |-> getNameCount(platform, a)]
    /\ a' = withOffsets(platform, a)
    /\ UNCHANGED <<files, platform, cwd, b>>

\* a.getName(index)
GetName ==
    /\ isPath(a)
    /\ \E index \in Indices :
        res' = [op |-> "getName", this |-> a, index |-> index,
                out |-> getName(platform, a, index)]
    /\ a' = withOffsets(platform, a)
    /\ UNCHANGED <<files, platform, cwd, b>>

\* a.subpath(beginIndex, endIndex)
Subpath ==
    /\ isPath(a)
    /\ \E beginIndex \in Indices, endIndex \in Indices :
        res' = [op |-> "subpath", this |-> a, beginIndex |-> beginIndex,
                endIndex |-> endIndex,
                out |-> subpath(platform, a, beginIndex, endIndex)]
    /\ a' = withOffsets(platform, a)
    /\ UNCHANGED <<files, platform, cwd, b>>

\* a.getFileName()
GetFileName ==
    /\ isPath(a)
    /\ res' = [op |-> "getFileName", this |-> a, out |-> getFileName(platform, a)]
    /\ UNCHANGED <<files, platform, cwd, a, b>>

\* a.getParent()
GetParent ==
    /\ isPath(a)
    /\ res' = [op |-> "getParent", this |-> a, out |-> getParent(platform, a)]
    /\ UNCHANGED <<files, platform, cwd, a, b>>

\* a.getRoot()
GetRoot ==
    /\ isPath(a)
    /\ res' = [op |-> "getRoot", this |-> a, out |-> getRoot(a)]
    /\ UNCHANGED <<files, platform, cwd, a, b>>

\* the paths derived from p that are passed back to it as the other path
Others(pf, p) ==
    {q \in {p, emptyPath, getParent(pf, p), getFileName(pf, p), getRoot(p)} : isPath(q)}

\* a.startsWith(other)
StartsWithOther ==
    /\ isPath(a)
    /\ \E other \in Others(platform, a) :
        /\ res' = [op |-> "startsWith", this |-> a, other |-> other,
                   out |-> startsWith(platform, a, other)]
        /\ a' = IF startsWithReadsOffsets(a, other) THEN withOffsets(platform, a) ELSE a
    /\ UNCHANGED <<files, platform, cwd, b>>

\* a.endWith(other)
EndWithOther ==
    /\ isPath(a)
    /\ \E other \in Others(platform, a) :
        /\ res' = [op |-> "endWith", this |-> a, other |-> other,
                   out |-> endWith(platform, a, other)]
        /\ a' = IF endWithReadsOffsets(a, other) THEN withOffsets(platform, a) ELSE a
    /\ UNCHANGED <<files, platform, cwd, b>>

\* a.resolve(other), a.relativize(other) and a.compareTo(other)
AlgebraOther ==
    /\ isPath(a)
    /\ \E other \in Others(platform, a) :
        \/ res' = [op |-> "resolve", this |-> a, other |-> other,
                   out |-> resolve(platform, cwd, a, other)]
        \/ res' = [op |-> "relativize", this |-> a, other |-> other,
                   out |-> relativize(platform, cwd, a, other)]
        \/ res' = [op |-> "compareTo", this |-> a, other |-> other,
                   out |-> compareTo(a, other)]
    /\ UNCHANGED <<files, platform, cwd, a, b>>

NextNames ==
    \/ GetPathNames
    \/ GetNameCount
    \/ GetName
    \/ Subpath
    \/ GetFileName
    \/ GetParent
    \/ GetRoot
    \/ Normalize
    \/ ToAbsolutePath
    \/ StartsWithOther
    \/ EndWithOther
    \/ AlgebraOther

SpecNames == Init /\ [][NextNames]_vars

(***************************************************************************)
(* Paths derived from paths                                                *)
(***************************************************************************)
MaxBody == 4

\* the operations whose result is a path that further operations run on
DerivingOps ==
    {"getRoot", "getParent", "getFileName", "getName", "subpath", "normalize",
     "resolve", "relativize", "toAbsolutePath"}

\* a = the path the last operation returned
Derive ==
    /\ res.op \in DerivingOps
    /\ isPath(res.out)
    /\ Len(res.out.path) <= MaxBody
    /\ a' = res.out
    /\ res' = [op |-> "derived", from |-> res.op, out |-> res.out]
    /\ UNCHANGED <<files, platform, cwd, b>>

NextReach == NextNames \/ Derive

SpecReach == Init /\ [][NextReach]_vars

(***************************************************************************)
(* Files: copy, move and delete                                            *)
(***************************************************************************)
\* the options passed to copy and move; no options stands for the default
\* list with COPY_ATTRIBUTES only
CopyOptions == SUBSET {REPLACE_EXISTING, COPY_ATTRIBUTES, ATOMIC_MOVE}

\* a file is written before the operations start
WriteFile ==
    /\ res = NoRes
    /\ \E name \in FileNames, content \in Contents :
        /\ files[name] = Absent
        /\ files' = [files EXCEPT ![name] = content]
    /\ UNCHANGED <<platform, cwd, a, b, res>>

\* provider.copy(source, target, options)
Copy ==
    \E source \in FileNames, target \in FileNames, options \in CopyOptions :
        /\ files' = copy(files, source, target, options).files
        /\ res' = [op |-> "copy", source |-> source, target |-> target,
                   options |-> options, before |-> files,
                   out |-> copy(files, source, target, options).exc]
        /\ UNCHANGED <<platform, cwd, a, b>>

\* provider.move(source, target, options)
Move ==
    \E source \in FileNames, target \in FileNames, options \in CopyOptions :
        /\ files' = move(files, source, target, options).files
        /\ res' = [op |-> "move", source |-> source, target |-> target,
                   options |-> options, before |-> files,
                   out |-> move(files, source, target, options).exc]
        /\ UNCHANGED <<platform, cwd, a, b>>

\* provider.delete(path)
Delete ==
    \E path \in FileNames :
        /\ files' = delete(files, path).files
        /\ res' = [op |-> "delete", path |-> path, before |-> files,
                   out |-> delete(files, path).exc]
        /\ UNCHANGED <<platform, cwd, a, b>>

NextFiles == WriteFile \/ Copy \/ Move \/ Delete

SpecFiles == Init /\ [][NextFiles]_vars

(***************************************************************************)
(* Permissions                                                             *)
(***************************************************************************)
\* view.setPermissions(perms): the mode handed to chmod
SetPermissions ==
    /\ res = NoRes
    /\ \E perms \in SUBSET PosixFilePermissions :
        res' = [op |-> "setPermissions", perms |-> perms,
                mode |-> convertPermissionsToPosix(perms)]
    /\ UNCHANGED <<files, platform, cwd, a, b>>

\* view.readAttributes().permissions() after the chmod
Permissions ==
    /\ res.op = "setPermissions"
    /\ res' = [op |-> "permissions", perms |-> res.perms, mode |-> res.mode,
               out |-> convertPosixPermissions(statsMode(res.mode))]
    /\ UNCHANGED <<files, platform, cwd, a, b>>

NextPerms == SetPermissions \/ Permissions

SpecPerms == Init /\ [][NextPerms]_vars

(***************************************************************************)
(* Properties                                                              *)
(***************************************************************************)
sign(n) == IF n < 0 THEN -1 ELSE IF n > 0 THEN 1 ELSE 0

differOnlyInCase(p, q) == p.path # q.path /\ toLowerCase(p.path) = toLowerCase(q.path)

\* C1: for paths a and b of the same type whose roots are equal ignoring
\* case, a.resolve(a.relativize(b)) is a path that equals b
C1_ResolveRelativizeInverse ==
    (/\ res.op = "resolveRelativized"
     /\ res.this.type = res.other.type
     /\ toUpperCase(res.this.root) = toUpperCase(res.other.root)) =>
        (isPath(res.out) /\ equals(res.out, res.other))

\* C2: normalizing the result of normalize again succeeds and gives a path
\* with the same body string
C2_NormalizeIdempotent ==
    res.op = "normalizeAgain" => (isPath(res.out) /\ res.out.path = res.first.path)

\* a second normalize has run on the result of a normalize that changed
\* the body of a rooted path
C2_Witness ==
    /\ res.op = "normalizeAgain"
    /\ res.this.root # <<>>
    /\ res.first.path # res.this.path
    /\ isPath(res.out)

\* C3: parsing the string form of a parsed path gives the same body, root
\* and type
C3_ParseRoundTrip ==
    res.op = "reparse" => (isPath(res.out) /\ res.out = res.this)

\* C4: a.toURL() succeeds and the provider's getPath of that URL equals
\* a.toAbsolutePath()
C4_URLRoundTrip ==
    /\ res.op = "toURL" => ~isException(res.out)
    /\ res.op = "getPathOfURL" =>
           (isPath(res.out) /\ equals(res.out, toAbsolutePath(platform, cwd, res.this)))

\* C5: a.resolve(b) equals b whenever b is absolute
C5_ResolveAbsolute ==
    (res.op = "resolve" /\ isAbsolute(res.other)) =>
        (isPath(res.out) /\ equals(res.out, res.other))

\* C6: a.resolve(emptyPath) equals a and has the same string form
C6_ResolveEmpty ==
    (res.op = "resolve" /\ res.other = emptyPath) =>
        (isPath(res.out) /\ equals(res.out, res.this)
         /\ toString(res.out) = toString(res.this))

\* C7: two paths whose bodies differ only in letter case are equal on
\* Windows and not equal on POSIX
C7_EqualsCaseByPlatform ==
    (res.op = "equals" /\ differOnlyInCase(res.this, res.other)) =>
        (res.out = (platform = "win32"))

\* C8: compareTo is 0 exactly when equals holds, changes sign when its
\* arguments are swapped, and is transitive
C8_CompareToOrdering ==
    res.op = "compareTo" =>
        /\ (res.ab = 0) = res.eq
        /\ sign(res.ab) = -sign(res.ba)
        /\ (res.ab <= 0 /\ res.bc <= 0) => res.ac <= 0

\* C9: relativize of paths that are not equal and differ in type, or in
\* root ignoring case, fails with IllegalArgumentException
C9_RelativizeRejects ==
    (/\ res.op = "relativize"
     /\ ~equals(res.this, res.other)
     /\ \/ res.this.type # res.other.type
        \/ toUpperCase(res.this.root) # toUpperCase(res.other.root)) =>
        res.out = IllegalArgumentException

\* relativize has rejected two paths of the same type whose roots differ
C9_Witness ==
    /\ res.op = "relativize"
    /\ ~equals(res.this, res.other)
    /\ res.this.type = res.other.type
    /\ toUpperCase(res.this.root) # toUpperCase(res.other.root)
    /\ res.out = IllegalArgumentException

\* C10: relativize of equal paths is the empty path, whatever their types
\* and roots
C10_RelativizeEqual ==
    (res.op = "relativize" /\ equals(res.this, res.other)) => res.out = emptyPath

\* relativize has returned the empty path for two equal paths whose roots
\* differ
C10_Witness ==
    /\ res.op = "relativize"
    /\ equals(res.this, res.other)
    /\ toUpperCase(res.this.root) # toUpperCase(res.other.root)
    /\ res.out = emptyPath

\* a name element "." or ".." occurs in the string s
hasDotElement(pf, s) ==
    \E i \in 1..Len(splitSegs(pf, s, <<>>)) :
        splitSegs(pf, s, <<>>)[i] \in {<<".">>, DotDot}

\* C11: the empty path relativizes a Relative path without root to a path
\* with exactly the body string of that path
C11_RelativizeFromEmpty ==
    (/\ res.op = "relativize"
     /\ res.this = emptyPath
     /\ res.other.type = RELATIVE
     /\ res.other.root = <<>>) =>
        (isPath(res.out) /\ toString(res.out) = toString(res.other))

\* the empty path has relativized a rootless Relative path that has a "."
\* or ".." element
C11_Witness ==
    /\ res.op = "relativize"
    /\ res.this = emptyPath
    /\ res.other.type = RELATIVE
    /\ res.other.root = <<>>
    /\ hasDotElement(platform, toString(res.other))
    /\ isPath(res.out)
    /\ toString(res.out) = toString(res.other)

\* element i of p equals element i + shift of q, ignoring case, for every
\* i below n
sameElements(pf, p, q, shift, n) ==
    \A i \in 0..(n - 1) :
        toUpperCase(elementAsString(pf, q, i))
            = toUpperCase(elementAsString(pf, p, i + shift))

\* C12: a.startsWith(b) is true exactly when the roots are equal ignoring
\* case and either both paths are empty, or b is not empty, has no more
\* elements than a, and its elements equal the leading elements of a
\* ignoring case
C12_StartsWith ==
    res.op = "startsWith" =>
        (res.out =
            (/\ toUpperCase(res.this.root) = toUpperCase(res.other.root)
             /\ \/ isEmpty(res.other) /\ isEmpty(res.this)
                \/ /\ ~isEmpty(res.other)
                   /\ getNameCount(platform, res.other) <= getNameCount(platform, res.this)
                   /\ sameElements(platform, res.this, res.other, 0,
                                   getNameCount(platform, res.other))))

\* C13: a.endWith(b) for a b with a root is true only if the roots are
\* equal ignoring case and the element counts are equal; for a rootless
\* non-empty b it is true exactly when b has no more elements than a and
\* they equal the last elements of a ignoring case; for an empty b it is
\* true exactly when a is empty
C13_EndWith ==
    res.op = "endWith" =>
        /\ (res.other.root # <<>> /\ res.out) =>
               (/\ toUpperCase(res.this.root) = toUpperCase(res.other.root)
                /\ getNameCount(platform, res.other) = getNameCount(platform, res.this))
        /\ (res.other.root = <<>> /\ ~isEmpty(res.other)) =>
               (res.out =
                   (/\ getNameCount(platform, res.other) <= getNameCount(platform, res.this)
                    /\ sameElements(platform, res.this, res.other,
                                    getNameCount(platform, res.this)
                                        - getNameCount(platform, res.other),
                                    getNameCount(platform, res.other))))
        /\ isEmpty(res.other) => (res.out = isEmpty(res.this))

\* the type of a body: two leading backslashes are UNC; a leading `first`
\* or the shape X:<separator> is Absolute; X: without the separator is
\* DriveRelative; anything else is Relative
typeOfBody(pf, body, first) ==
    IF Len(body) >= 2 /\ body[1] = "\\" /\ body[2] = "\\" THEN UNC
    ELSE IF (body # <<>> /\ body[1] = first)
            \/ (Len(body) >= 3 /\ body[2] = ":" /\ body[3] = sep(pf))
         THEN ABSOLUTE
    ELSE IF Len(body) >= 2 /\ body[2] = ":" THEN DRIVE_RELATIVE
    ELSE RELATIVE

C15_ToAbsolutePath ==
    res.op = "toAbsolutePath" =>
        /\ isPath(res.out)
        /\ isAbsolute(res.out)
        /\ getRoot(res.out) # NoPath
        /\ isAbsolute(res.this) => res.out = res.this

\* C16: the provider's getPath of a URL whose scheme is not file, or that
\* carries a query or a fragment, fails with IllegalArgumentException
C16_URLImportRejects ==
    (/\ res.op = "getPathOfURLObject"
     /\ \/ res.url.protocol # "file:"
        \/ res.url.search # <<>>
        \/ res.url.hash # <<>>) =>
        res.out = IllegalArgumentException

\* the part of the body of p after its root
beyondRoot(p) == SubSeq(p.path, Len(p.root) + 1, Len(p.path))

\* the body of p is its root followed by one or more ".." elements
rootThenDotDots(pf, p) ==
    /\ \A i \in 1..Len(splitSegs(pf, beyondRoot(p), <<>>)) :
        splitSegs(pf, beyondRoot(p), <<>>)[i] \in {<<>>, DotDot}
    /\ \E i \in 1..Len(splitSegs(pf, beyondRoot(p), <<>>)) :
        splitSegs(pf, beyondRoot(p), <<>>)[i] = DotDot

\* the body of p is its root and ends with exactly one separator
rootOnlyOneSeparator(pf, p) ==
    /\ p.path = p.root
    /\ Len(p.path) >= 1
    /\ isPathSeparator(pf, p.path[Len(p.path)])
    /\ Len(p.path) >= 2 => ~isPathSeparator(pf, p.path[Len(p.path) - 1])

\* C17: normalize of a path with a non-empty root keeps the root (ignoring
\* case) and leaves no "." or ".." element; the root followed by ".."
\* elements normalizes to the root-only path with one trailing separator
C17_NormalizeBelowRoot ==
    (/\ res.op = "normalize"
     /\ res.this.root # <<>>) =>
        /\ isPath(res.out)
        /\ toUpperCase(res.out.root) = toUpperCase(res.this.root)
        /\ ~hasDotElement(platform, beyondRoot(res.out))
        /\ rootThenDotDots(platform, res.this) =>
            rootOnlyOneSeparator(platform, res.out)

\* mount point i of the enumeration is one the absolute path of p starts with
mountMatches(pf, wd, p, mounts, i) ==
    startsWith(pf, toAbsolutePath(pf, wd, p), mounts[i].mountPoint)

\* C18: getFileStore returns a store owning a mount point that the absolute
\* path starts with and that has at least as many names as every mount
\* point the absolute path starts with; it fails when no mount point matches
C18_LongestMount ==
    res.op = "getFileStore" =>
        IF \E i \in 1..Len(res.mounts) : mountMatches(platform, cwd, res.this, res.mounts, i)
        THEN /\ res.out # IllegalArgumentException
             /\ \E i \in 1..Len(res.mounts) :
                 /\ res.mounts[i].store = res.out.store
                 /\ mountMatches(platform, cwd, res.this, res.mounts, i)
                 /\ \A j \in 1..Len(res.mounts) :
                     mountMatches(platform, cwd, res.this, res.mounts, j) =>
                         getNameCount(platform, res.mounts[i].mountPoint)
                             >= getNameCount(platform, res.mounts[j].mountPoint)
        ELSE res.out = IllegalArgumentException

\* C19: getPath(first, more) is getPath(first, more without its empty
\* elements), and the body of the result ends with a separator only when it
\* is the root
C19_JoinMore ==
    /\ res.op = "getPathMore" => res.out = res.compact
    /\ (res.op \in {"getPath", "getPathMore"} /\ isPath(res.out)) =>
        \/ res.out.path = <<>>
        \/ ~isPathSeparator(platform, res.out.path[Len(res.out.path)])
        \/ res.out.path = res.out.root

\* a join with an empty element before a last element that ends with a
\* separator
C19_Witness ==
    /\ res.op = "getPathMore"
    /\ Len(res.more) = 2
    /\ res.more[1] = <<>>
    /\ res.more[2] = <<"c", sep(platform)>>
    /\ res.first = <<"c", ":">>
    /\ isPath(res.out)
    /\ res.out = res.compact

\* the string s has, after the root that path.parse finds in it, a character
\* below U+0020 or one of < > : " | ? *
invalidBeyondRoot(pf, s) ==
    \E i \in (Len(pathParse(pf, s).root) + 1)..Len(s) :
        CharCode(s[i]) < 32 \/ s[i] \in {"<", ">", ":", "\"", "|", "?", "*"}

\* getPath of the string s gave out: on Windows InvalidPathException exactly
\* for an invalid character beyond the root, on POSIX always a path
validated(pf, s, out) ==
    IF pf = "win32"
    THEN IF invalidBeyondRoot(pf, s) THEN out = InvalidPathException ELSE isPath(out)
    ELSE isPath(out)

C21_EmptyPath ==
    (isPath(a) /\ a.path = getPath(platform, <<>>, <<>>).path) =>
        /\ getNameCount(platform, a) = 1
        /\ getName(platform, a, 0) = emptyPath
        /\ toString(getName(platform, a, 0)) = <<>>
        /\ ~isAbsolute(a)
        /\ getRoot(a) = NoPath
        /\ getParent(platform, a) = NoPath
        /\ getFileName(platform, a) = a
        /\ res.op = "getNameCount" => res.out = 1
        /\ res.op = "getParent" => res.out = NoPath
        /\ res.op = "getFileName" => res.out = a

\* getNameCount has run on the path parsed from ""
C21_Witness ==
    /\ res.op = "getNameCount"
    /\ res.this = getPath(platform, <<>>, <<>>)
    /\ res.out = 1

\* C22: a path whose body is its non-empty root has no name element, no
\* file name and no parent
C22_RootOnly ==
    (isPath(a) /\ a.root # <<>> /\ a.path = a.root) =>
        /\ getNameCount(platform, a) = 0
        /\ getFileName(platform, a) = NoPath
        /\ getParent(platform, a) = NoPath
        /\ res.op = "getNameCount" => res.out = 0
        /\ res.op \in {"getFileName", "getParent"} => res.out = NoPath

\* getFileName has run on a UNC root
C22_Witness ==
    /\ res.op = "getFileName"
    /\ res.this.type = UNC
    /\ res.this.root = <<"\\", "\\", "c", "\\", "d", "\\">>
    /\ res.this.path = res.this.root
    /\ res.out = NoPath

\* the name elements begin .. end - 1 of p
elementsOf(pf, p, begin, end) ==
    [k \in 1..(end - begin) |-> elementAsString(pf, p, begin + k - 1)]

\* C23: getName(i) fails exactly for i outside [0, getNameCount());
\* subpath(begin, end) fails exactly unless 0 <= begin < end <=
\* getNameCount(), and otherwise returns the Relative path without root whose
\* body is the elements begin .. end - 1 joined by the separator
C23_IndexValidation ==
    /\ res.op = "getName" =>
        IF res.index < 0 \/ res.index >= getNameCount(platform, res.this)
        THEN isException(res.out)
        ELSE isPath(res.out)
    /\ res.op = "subpath" =>
        IF /\ 0 <= res.beginIndex
           /\ res.beginIndex < res.endIndex
           /\ res.endIndex <= getNameCount(platform, res.this)
        THEN /\ isPath(res.out)
             /\ res.out.type = RELATIVE
             /\ res.out.root = <<>>
             /\ res.out.path = joinSegs(elementsOf(platform, res.this, res.beginIndex,
                                                   res.endIndex), sep(platform))
        ELSE isException(res.out)

\* subpath has returned the first two of three names of a rooted path
C23_Witness ==
    /\ res.op = "subpath"
    /\ getNameCount(platform, res.this) = 3
    /\ res.this.root # <<>>
    /\ res.beginIndex = 0
    /\ res.endIndex = 2
    /\ isPath(res.out)
    /\ res.out.path = <<"c", sep(platform), "d">>

\* the path object with the type, root and body of p before any operation
asConstructed(p) == LocalPath(p.type, p.root, p.path)

\* a step leaves the type, root and body of the path a alone and does not
\* change offsets that are stored
pathKept ==
    isPath(a) =>
        /\ isPath(a')
        /\ asConstructed(a') = asConstructed(a)
        /\ "offsets" \in DOMAIN a => a' = a

\* stored offsets are those of the root length and body, and getNameCount
\* and getName answer as on a path nothing has been called on
firstAnswers ==
    /\ (isPath(a) /\ "offsets" \in DOMAIN a) =>
        a.offsets = initOffsets(platform, asConstructed(a))
    /\ res.op = "getNameCount" =>
        res.out = getNameCount(platform, asConstructed(res.this))
    /\ res.op = "getName" =>
        res.out = getName(platform, asConstructed(res.this), res.index)

\* C24: no operation changes the root, body or type of a path; the offsets
\* are stored once, depend only on root length and body, and getNameCount
\* and getName always return what their first call returns
C24_Immutable == []firstAnswers /\ [][pathKept]_vars

\* getName has run on a rooted path whose offsets an earlier call stored
C24_Witness ==
    /\ res.op = "getName"
    /\ "offsets" \in DOMAIN res.this
    /\ res.this.root # <<>>
    /\ Len(res.this.offsets) = 2
    /\ res.index = 1
    /\ isPath(res.out)

\* the offsets (from 0) at which a maximal run of characters other than the
\* separator starts in s
runStarts(pf, s) ==
    {i \in 1..Len(s) : s[i] # sep(pf) /\ (i = 1 \/ s[i - 1] = sep(pf))}

\* C25: the body of a path returned by getPath has no two consecutive
\* separators after the root, every name of a non-empty path is non-empty,
\* and getNameCount is the number of maximal runs of non-separator
\* characters after the root
C25_SeparatorsCollapsed ==
    (res.op = "getPath" /\ isPath(res.out)) =>
        /\ \A i \in (Len(res.out.root) + 1)..(Len(res.out.path) - 1) :
            ~(res.out.path[i] = sep(platform) /\ res.out.path[i + 1] = sep(platform))
        /\ ~isEmpty(res.out) =>
            /\ \A k \in 0..(getNameCount(platform, res.out) - 1) :
                elementAsString(platform, res.out, k) # <<>>
            /\ getNameCount(platform, res.out)
                   = Cardinality(runStarts(platform, SliceFrom(res.out.path,
                                                               Len(res.out.root))))

\* C26: every path reached from getPath through getRoot, getParent,
\* getFileName, getName, subpath, normalize, resolve, relativize and
\* toAbsolutePath has a body that starts with its root, and a body that is
\* not the root does not end with a separator
C26_RootPrefix ==
    isPath(a) =>
        /\ Len(a.root) <= Len(a.path)
        /\ strStartsWith(a.path, a.root)
        /\ (a.path # a.root /\ a.path # <<>>) => a.path[Len(a.path)] # sep(platform)

\* C27: a parent q of a path p returned by getPath has the type and root of
\* p and one name less, p starts with q and ends with its file name; the
\* parent is the root when the last separator lies before the end of the root
C27_Parent ==
    (res.op = "getParent" /\ isPath(res.out)) =>
        /\ res.out.type = res.this.type
        /\ res.out.root = res.this.root
        /\ getNameCount(platform, res.out) = getNameCount(platform, res.this) - 1
        /\ startsWith(platform, res.this, res.out)
        /\ isPath(getFileName(platform, res.this))
        /\ endWith(platform, res.this, getFileName(platform, res.this))
        /\ lastIndexOf(res.this.path, sep(platform)) < Len(res.this.root) =>
            res.out = getRoot(res.this)

\* p is a Relative path without root
rootless(p) == p.type = RELATIVE /\ p.root = <<>>

\* C28: for Relative paths without root, base.relativize(other) and
\* base.resolve(other) give the same result in every working directory
C28_CwdIndependent ==
    /\ (res.op = "resolve" /\ rootless(res.this) /\ rootless(res.other)) =>
        \A wd \in Cwds(platform) : resolve(platform, wd, res.this, res.other) = res.out
    /\ (res.op = "relativize" /\ rootless(res.this) /\ rootless(res.other)) =>
        \A wd \in Cwds(platform) : relativize(platform, wd, res.this, res.other) = res.out

\* C29: a move without REPLACE_EXISTING onto an existing target leaves the
\* target with its content and the source as it was
C29_FailedMoveKeepsFiles ==
    (/\ res.op = "move"
     /\ REPLACE_EXISTING \notin res.options
     /\ res.before[res.target] # Absent) =>
        /\ files[res.target] = res.before[res.target]
        /\ files[res.source] = res.before[res.source]

\* C30: the permissions read back after setPermissions(S) are exactly S
C30_PermissionRoundTrip ==
    res.op = "permissions" =>
        /\ res.out = res.perms
        /\ convertPosixPermissions(convertPermissionsToPosix(res.perms)) = res.perms

====
